---- MODULE Spec2Model ----
(***************************************************************************)
(* A model of the n-gram text generator (generator.py, class               *)
(* TextGenerator).                                                         *)
(*                                                                         *)
(* Python values are represented as follows.                               *)
(*   str          a sequence of one-character strings, "cat" is            *)
(*                <<"c","a","t">>                                          *)
(*   None         the value None below                                     *)
(*   dict         a sequence of records [k |-> key, v |-> value] in        *)
(*                insertion order, keys unique                             *)
(*   float p      the exact rational [num |-> n, den |-> d]                *)
(*   tuple (a,b)  the record [a |-> a, b |-> b]; a str used as a dict key  *)
(*                of a chain is the record [s |-> str]                     *)
(* The state of the random source is the tape of the outcomes it will      *)
(* yield; outcome r stands for the value r / RMax of random.random().  An  *)
(* operator that draws takes the position p of the next outcome on the     *)
(* tape and returns the position it leaves; a call starts at position 0    *)
(* and leaves the tape advanced by the draws it made.                      *)
(***************************************************************************)
EXTENDS Integers, Sequences, FiniteSets, TLC

VARIABLES char_unigrams, char_bigrams, char_trigrams,
          word_unigrams, word_bigrams, word_trigrams, sentence_stats,
          char_unigram_probs, char_bigram_chains, char_trigram_chains,
          word_unigram_probs, word_bigram_chains, word_trigram_chains,
          pc, fn, arg, level, length, num_sentences, anchor_words,
          tape, ndraws, result, raised, message, frame, files

tables == <<char_unigrams, char_bigrams, char_trigrams,
            word_unigrams, word_bigrams, word_trigrams, sentence_stats>>

models == <<char_unigram_probs, char_bigram_chains, char_trigram_chains,
            word_unigram_probs, word_bigram_chains, word_trigram_chains>>

\* the call in progress: fn is the method called and arg the arguments of a
\* helper method (generate's are level, length, num_sentences, anchor_words);
\* frame holds the local variables of a call that is followed loop by loop
call == <<pc, fn, arg, level, length, num_sentences, anchor_words,
          tape, ndraws, result, raised, message, frame>>

\* files is the file system: the content of each file that exists
vars == <<tables, models, call, files>>

(***************************************************************************)
(* Bounds of the model.                                                    *)
(***************************************************************************)
\* the random source yields the outcomes 0 .. RMax-1 (r stands for r/RMax)
RMax == 2
\* the outcomes of the random source repeat with this period
TapeLen == 1
\* largest requested character count
MaxLength == 3
\* largest requested sentence count
MaxSentences == 2

(***************************************************************************)
(* Python built-ins used by the generator.                                 *)
(***************************************************************************)
None == <<"<None>">>

\* truth value of an Optional[str]: None and '' are false
Truthy(x) == x # None /\ x # <<>>

LowerChars == <<"a","b","c","d","e","f","g","h","i","j","k","l","m",
                "n","o","p","q","r","s","t","u","v","w","x","y","z">>

UpperChars == <<"A","B","C","D","E","F","G","H","I","J","K","L","M",
                "N","O","P","Q","R","S","T","U","V","W","X","Y","Z">>

\* str.upper() of one character
upper(c) ==
  IF \E i \in 1..26 : LowerChars[i] = c
  THEN UpperChars[CHOOSE i \in 1..26 : LowerChars[i] = c]
  ELSE c

\* str.lower() of a string
lower(s) ==
  [i \in 1..Len(s) |->
     IF \E j \in 1..26 : UpperChars[j] = s[i]
     THEN LowerChars[CHOOSE j \in 1..26 : UpperChars[j] = s[i]]
     ELSE s[i]]

\* the operator `sub in s` on strings
contains(sub, s) ==
  \E i \in 0..(Len(s) - Len(sub)) : SubSeq(s, i + 1, i + Len(sub)) = sub

\* sep.join(parts): the parts in order with sep between neighbours (the list
\* is halved so that the evaluation stays shallow for long lists)
RECURSIVE join(_, _)
RECURSIVE joinAt(_, _, _)
join(sep, parts) ==
  IF parts = <<>> THEN <<>>
  ELSE IF Len(parts) = 1 THEN parts[1]
  ELSE joinAt(sep, parts, Len(parts) \div 2)

joinAt(sep, parts, h) ==
  join(sep, SubSeq(parts, 1, h)) \o sep \o join(sep, SubSeq(parts, h + 1, Len(parts)))

\* s.find(sep, i): the first occurrence of sep in s at or after position i
\* (1-based), 0 when there is none
find(s, sep, i) ==
  IF \E j \in i..(Len(s) - Len(sep) + 1) : SubSeq(s, j, j + Len(sep) - 1) = sep
  THEN CHOOSE j \in i..(Len(s) - Len(sep) + 1) :
         /\ SubSeq(s, j, j + Len(sep) - 1) = sep
         /\ \A h \in i..(j - 1) : SubSeq(s, h, h + Len(sep) - 1) # sep
  ELSE 0

\* s.split(sep) for a non-empty separator: scan from the left, cut at every
\* non-overlapping occurrence
RECURSIVE splitFrom(_, _, _)
RECURSIVE cutAt(_, _, _, _)
splitFrom(s, sep, i) == cutAt(s, sep, i, find(s, sep, i))

cutAt(s, sep, i, j) ==
  IF j = 0 THEN <<SubSeq(s, i, Len(s))>>
  ELSE <<SubSeq(s, i, j - 1)>> \o splitFrom(s, sep, j + Len(sep))

split(s, sep) == splitFrom(s, sep, 1)

\* sentence[0].upper() + sentence[1:] + '.'
format(sentence) == <<upper(sentence[1])>> \o Tail(sentence) \o <<".">>

\* key in d
has(d, key) == \E i \in 1..Len(d) : d[i].k = key

\* d.get(key, default)
get(d, key, default) ==
  IF has(d, key) THEN d[CHOOSE i \in 1..Len(d) : d[i].k = key].v ELSE default

\* sum of the integer values of a dict
RECURSIVE sum(_)
sum(d) == IF d = <<>> THEN 0 ELSE d[1].v + sum(Tail(d))

\* sum of a dict of floats that share one denominator
RECURSIVE sumNum(_)
sumNum(d) == IF d = <<>> THEN 0 ELSE d[1].v.num + sumNum(Tail(d))

\* outcome of the random source at position p
random(p) == tape[(p % TapeLen) + 1]

\* random.randint(a, b): a + int(random() * (b - a + 1))
randint(a, b, p) == a + ((random(p) * (b - a + 1)) \div RMax)

(***************************************************************************)
(* Building the models (TextGenerator._build_ngram_models).                *)
(***************************************************************************)
DELIM == <<"|", "|">>

\* the number of keys taken for the total of the counts
_frequencies_to_probabilities_total_is_size(frequencies) ==
  IF frequencies = <<>> THEN <<>>
  ELSE [i \in 1..Len(frequencies) |->
          [k |-> frequencies[i].k,
           v |-> [num |-> frequencies[i].v, den |-> Len(frequencies)]]]

\* count / total for every key (the tables explored have positive counts, so
\* total is never 0)
_frequencies_to_probabilities(frequencies) ==
  IF frequencies = <<>> THEN <<>>
  ELSE LET total == sum(frequencies)
       IN  [i \in 1..Len(frequencies) |->
              [k |-> frequencies[i].k,
               v |-> [num |-> frequencies[i].v, den |-> total]]]

\* chains[prefix][next_item] += count on the defaultdict of defaultdicts
addCount(chains, prefix, next_item, count) ==
  IF has(chains, prefix)
  THEN [i \in 1..Len(chains) |->
          IF chains[i].k # prefix THEN chains[i]
          ELSE [k |-> prefix,
                v |-> IF has(chains[i].v, next_item)
                      THEN [j \in 1..Len(chains[i].v) |->
                              IF chains[i].v[j].k = next_item
                              THEN [k |-> next_item, v |-> chains[i].v[j].v + count]
                              ELSE chains[i].v[j]]
                      ELSE Append(chains[i].v, [k |-> next_item, v |-> count])]]
  ELSE Append(chains, [k |-> prefix, v |-> <<[k |-> next_item, v |-> count]>>])

\* the loop with the branch of the keys of three parts left out
RECURSIVE countChains_two_parts_only(_, _)
countChains_two_parts_only(ngrams, chains) ==
  IF ngrams = <<>> THEN chains
  ELSE LET parts == split(ngrams[1].k, DELIM)
           count == ngrams[1].v
       IN  countChains_two_parts_only(Tail(ngrams),
             IF Len(parts) = 2
             THEN addCount(chains, [s |-> parts[1]], parts[2], count)
             ELSE chains)

\* the loop over ngrams.items()
RECURSIVE countChains(_, _)
countChains(ngrams, chains) ==
  IF ngrams = <<>> THEN chains
  ELSE LET parts == split(ngrams[1].k, DELIM)
           count == ngrams[1].v
       IN  countChains(Tail(ngrams),
             IF Len(parts) = 2
             THEN addCount(chains, [s |-> parts[1]], parts[2], count)
             ELSE IF Len(parts) = 3
             THEN addCount(chains, [a |-> parts[1], b |-> parts[2]], parts[3], count)
             ELSE chains)

\* the total taken over the whole table instead of the prefix
normalize_by_global_total(chains) ==
  [i \in 1..Len(chains) |->
     [k |-> chains[i].k,
      v |-> [j \in 1..Len(chains[i].v) |->
               [k |-> chains[i].v[j].k,
                v |-> [num |-> chains[i].v[j].v,
                       den |-> sum([h \in 1..Len(chains) |->
                                      [k |-> chains[h].k, v |-> sum(chains[h].v)]])]]]]]

\* the normalisation loop: every count divided by its prefix's total
normalize(chains) ==
  [i \in 1..Len(chains) |->
     [k |-> chains[i].k,
      v |-> LET total == sum(chains[i].v)
            IN  [j \in 1..Len(chains[i].v) |->
                   [k |-> chains[i].v[j].k,
                    v |-> [num |-> chains[i].v[j].v, den |-> total]]]]]

_build_markov_chains(ngrams) == normalize(countChains(ngrams, <<>>))

(***************************************************************************)
(* Sampling.  Every operator that draws returns [out, pos]: its value and  *)
(* the position of the random source after its draws.                      *)
(***************************************************************************)
\* bisect(cum_weights, random() * total, 0, n - 1), 1-based
bisect(choices, r) ==
  LET n     == Len(choices)
      total == sumNum(choices)
      hits  == {i \in 1..(n - 1) : sumNum(SubSeq(choices, 1, i)) * RMax > r * total}
  IN  IF hits = {} THEN n ELSE CHOOSE i \in hits : \A j \in hits : i <= j

\* random.choice(seq): seq[int(random() * len(seq))], 1-based
choiceIndex(n, r) == 1 + ((r * n) \div RMax)

\* random.choice(seq) for a non-empty seq
choice(seq, p) == [out |-> seq[choiceIndex(Len(seq), random(p))], pos |-> p + 1]

\* the except branch gives up instead of choosing uniformly
_weighted_choice_no_fallback(choices, p) ==
  IF choices = <<>> THEN [out |-> None, pos |-> p]
  ELSE IF sumNum(choices) > 0
       THEN [out |-> choices[bisect(choices, random(p))].k, pos |-> p + 1]
       ELSE [out |-> None, pos |-> p]

_weighted_choice(choices, p) ==
  IF choices = <<>> THEN [out |-> None, pos |-> p]
  ELSE IF sumNum(choices) > 0
       THEN [out |-> choices[bisect(choices, random(p))].k, pos |-> p + 1]
       \* random.choices raised (total of weights is zero): random.choice(items)
       ELSE [out |-> choice(choices, p).out.k, pos |-> p + 1]

\* `if x is None: x = self._weighted_choice(choices)`
orElse(first, choices) ==
  IF first.out = None THEN _weighted_choice(choices, first.pos) ELSE first

\* `if token: list.append(token)`
appendIf(list, token) == IF Truthy(token) THEN Append(list, token) ELSE list

DigitChars == <<"0","1","2","3","4","5","6","7","8","9">>

\* int(length_str) for a string of decimal digits
RECURSIVE int(_)
int(s) ==
  IF s = <<>> THEN 0
  ELSE 10 * int(SubSeq(s, 1, Len(s) - 1))
       + (CHOOSE d \in 0..9 : DigitChars[d + 1] = s[Len(s)])

\* [x] * count
RECURSIVE repeat(_, _)
repeat(x, count) == IF count <= 0 THEN <<>> ELSE <<x>> \o repeat(x, count - 1)

\* the counts ignored: every length of the distribution once
RECURSIVE lengthPopulation_every_length(_)
lengthPopulation_every_length(length_dist) ==
  IF length_dist = <<>> THEN <<>>
  ELSE <<int(length_dist[1].k)>> \o lengthPopulation_every_length(Tail(length_dist))

\* lengths.extend([int(length_str)] * count) over length_dist.items()
RECURSIVE lengthPopulation(_)
lengthPopulation(length_dist) ==
  IF length_dist = <<>> THEN <<>>
  ELSE repeat(int(length_dist[1].k), length_dist[1].v)
       \o lengthPopulation(Tail(length_dist))

\* `if lengths: return random.choice(lengths)`, else the default range
chooseLength(lengths, p) ==
  IF lengths # <<>>
  THEN choice(lengths, p)
  ELSE [out |-> randint(5, 20, p), pos |-> p + 1]

_sample_sentence_length(p) ==
  IF sentence_stats = <<>> \/ ~has(sentence_stats, "length_distribution")
  THEN [out |-> randint(5, 20, p), pos |-> p + 1]
  ELSE chooseLength(lengthPopulation(get(sentence_stats, "length_distribution", <<>>)), p)

(***************************************************************************)
(* Character-level generation.  A generate_* operator returns              *)
(* [out, pos, exc]: the string, the position of the random source and the  *)
(* exception raised ("none" when it returned).  A loop works on a record   *)
(* of its local variables, pos and exc, and looks at that record before    *)
(* each iteration (an iteration runs only while no exception is pending),  *)
(* which also keeps the evaluation shallow.                                *)
(***************************************************************************)
returned(text, p) == [out |-> text, pos |-> p, exc |-> "none"]

raise(e, p) == [out |-> <<>>, pos |-> p, exc |-> e]

\* the text of an exception: the ValueError of generate names the level
messageOf(e, lv) ==
  IF e = "ValueError"
  THEN <<"Invalid level: ", lv, ". Must be 'char-0' through 'word-3'">>
  ELSE <<>>

\* the slice forgotten: the whole list
prefix_unsliced(list, n) == list

\* result[:n] for n >= 0
prefix(list, n) == SubSeq(list, 1, IF n < Len(list) THEN n ELSE Len(list))

\* return ''.join(result[:length]), or the exception of the loop
joined(s, len) ==
  IF s.exc # "none" THEN raise(s.exc, s.pos)
  ELSE returned(join(<<>>, prefix(s.result, len)), s.pos)

\* locals after the seeding draws
locals(res, cur, p) == [result |-> res, current |-> cur, pos |-> p, exc |-> "none"]

\* result.append(token); current = token
extended(s, token) ==
  [result |-> Append(s.result, token.out), current |-> token.out,
   pos |-> token.pos, exc |-> "none"]

\* list('abcdefghijklmnopqrstuvwxyz '): 27 strings of one character
chars == [i \in 1..27 |-> <<(LowerChars \o <<" ">>)[i]>>]

RECURSIVE generate_char_0_loop(_, _, _)
generate_char_0_loop(i, len, s) ==
  IF i >= len \/ s.exc # "none" THEN s
  ELSE IF len - i = 1 THEN extended(s, choice(chars, s.pos))
  ELSE LET half == generate_char_0_loop(i, i + ((len - i) \div 2), s)
       IN  IF half.pos >= 0 THEN generate_char_0_loop(i + ((len - i) \div 2), len, half)
           ELSE half

\* char = self._weighted_choice(...); if char: result.append(char)
drawnInto(s, token) ==
  [result |-> appendIf(s.result, token.out), current |-> token.out,
   pos |-> token.pos, exc |-> "none"]

RECURSIVE generate_char_1_loop(_, _, _)
generate_char_1_loop(i, len, s) ==
  IF i >= len \/ s.exc # "none" THEN s
  ELSE IF len - i = 1 THEN drawnInto(s, _weighted_choice(char_unigram_probs, s.pos))
  ELSE LET half == generate_char_1_loop(i, i + ((len - i) \div 2), s)
       IN  IF half.pos >= 0 THEN generate_char_1_loop(i + ((len - i) \div 2), len, half)
           ELSE half

\* return ''.join(result)
joinedAll(s) == returned(join(<<>>, s.result), s.pos)

generate_char_0(len, p) ==
  joinedAll(generate_char_0_loop(0, len, locals(<<>>, None, p)))

generate_char_1(len, p) ==
  joinedAll(generate_char_1_loop(0, len, locals(<<>>, None, p)))

\* next_char of generate_char_2: the bigram chain of current, else unigrams
char_2_next_char(s) ==
  orElse(_weighted_choice(get(char_bigram_chains, [s |-> s.current], <<>>), s.pos),
         char_unigram_probs)

RECURSIVE generate_char_2_loop(_, _)
RECURSIVE generate_char_2_next(_, _, _)
generate_char_2_loop(len, s) ==
  IF Len(s.result) >= len THEN s
  ELSE IF len - Len(s.result) = 1 THEN generate_char_2_next(len, s, char_2_next_char(s))
  \* the first half of the iterations, then the rest unless the loop was left
  ELSE LET half == generate_char_2_loop(len - ((len - Len(s.result)) \div 2), s)
       IN  IF Len(half.result) >= len - ((len - Len(s.result)) \div 2)
           THEN generate_char_2_loop(len, half)
           ELSE half

generate_char_2_next(len, s, next_char) ==
  IF Truthy(next_char.out)
  THEN generate_char_2_loop(len, extended(s, next_char))
  ELSE [s EXCEPT !.pos = next_char.pos]

generate_char_2(len, p) ==
  IF char_bigram_chains = <<>> THEN generate_char_1(len, p)
  ELSE joined(generate_char_2_loop(len,
                drawnInto(locals(<<>>, None, p),
                          _weighted_choice(char_unigram_probs, p))), len)

last(list) == list[Len(list)]

\* context = (result[-2], result[-1])
contextOf(list) == [a |-> list[Len(list) - 1], b |-> list[Len(list)]]

\* the two fallbacks in the other order: unigrams before the bigram chain
char_3_next_char_unigrams_first(s) ==
  orElse(orElse(_weighted_choice(
                  get(char_trigram_chains, contextOf(s.result), <<>>), s.pos),
                char_unigram_probs),
         get(char_bigram_chains, [s |-> last(s.result)], <<>>))

\* next_char of generate_char_3: the trigram chain of the context, else the
\* bigram chain of result[-1], else unigrams
char_3_next_char(s) ==
  orElse(orElse(_weighted_choice(
                  get(char_trigram_chains, contextOf(s.result), <<>>), s.pos),
                get(char_bigram_chains, [s |-> last(s.result)], <<>>)),
         char_unigram_probs)

RECURSIVE generate_char_3_loop(_, _)
RECURSIVE generate_char_3_next(_, _, _)
generate_char_3_loop(len, s) ==
  IF Len(s.result) >= len THEN s
  \* result[-2] on a list shorter than two
  ELSE IF Len(s.result) < 2 THEN [s EXCEPT !.exc = "IndexError"]
  ELSE IF len - Len(s.result) = 1 THEN generate_char_3_next(len, s, char_3_next_char(s))
  \* the first half of the iterations, then the rest unless the loop was left
  ELSE LET half == generate_char_3_loop(len - ((len - Len(s.result)) \div 2), s)
       IN  IF Len(half.result) >= len - ((len - Len(s.result)) \div 2)
           THEN generate_char_3_loop(len, half)
           ELSE half

generate_char_3_next(len, s, next_char) ==
  IF Truthy(next_char.out)
  THEN generate_char_3_loop(len, extended(s, next_char))
  ELSE [s EXCEPT !.pos = next_char.pos]

\* char1 and char2 are both drawn before either is appended
seedTwo(s, token1, probs) ==
  drawnInto(drawnInto(s, token1), _weighted_choice(probs, token1.pos))

\* the emptiness test forgotten: an empty trigram model is handled per token
generate_char_3_per_token(len, p) ==
  joined(generate_char_3_loop(len,
           seedTwo(locals(<<>>, None, p),
                   _weighted_choice(char_unigram_probs, p),
                   char_unigram_probs)), len)

generate_char_3(len, p) ==
  IF char_trigram_chains = <<>> THEN generate_char_2(len, p)
  ELSE joined(generate_char_3_loop(len,
                seedTwo(locals(<<>>, None, p),
                        _weighted_choice(char_unigram_probs, p),
                        char_unigram_probs)), len)

(***************************************************************************)
(* Anchor-word integration.  An absent anchor list (Python None) is the    *)
(* value NoneList; like the empty list it is false.                        *)
(***************************************************************************)
NoneList == <<None>>

TruthyList(l) == l # NoneList /\ l # <<>>

\* list[::-1]
RECURSIVE reversed(_)
reversed(l) == IF l = <<>> THEN <<>> ELSE Append(reversed(Tail(l)), l[1])

\* the body of a `for _ in range(count)` walk of _generate_around_anchor
walkDraw(words, p) ==
  IF Len(words) >= 2
  THEN _weighted_choice(get(word_bigram_chains, contextOf(words), <<>>), p)
  ELSE _weighted_choice(word_unigram_probs, p)

RECURSIVE walk(_, _, _)
walk(i, count, s) ==
  IF i >= count \/ s.exc # "none" THEN s
  ELSE walk(i + 1, count, drawnInto(s, walkDraw(s.result, s.pos)))

\* all_words = prev_words[::-1] + next_words[1:], formatted
around(prev_words, next_words) ==
  IF reversed(prev_words.result) \o Tail(next_words.result) # <<>>
  THEN [out |-> format(join(<<" ">>,
                  reversed(prev_words.result) \o Tail(next_words.result))),
        pos |-> next_words.pos]
  ELSE [out |-> None, pos |-> next_words.pos]

\* the walk after the anchor starts where the walk before it left the source
aroundFrom(anchor_word, after_count, prev_words) ==
  around(prev_words,
         walk(0, after_count, locals(<<anchor_word>>, None, prev_words.pos)))

aroundWith(anchor_word, num_words, before_count, p) ==
  aroundFrom(anchor_word, num_words - before_count,
             walk(0, before_count, locals(<<anchor_word>>, None, p)))

_generate_around_anchor(anchor_word, num_words, p) ==
  aroundWith(anchor_word, num_words, randint(2, 5, p), p + 1)

max_anchor_attempts == 10

\* sentences[random.randint(0, len(sentences) - 1)] = candidate
replaced(sentences, candidate) ==
  [out |-> [sentences EXCEPT
              ![randint(0, Len(sentences) - 1, candidate.pos) + 1] = candidate.out],
   pos |-> candidate.pos + 1]

\* candidate = self._generate_around_anchor(anchor, num_words=<sampled length>)
candidateFor(anchor, num_words) ==
  _generate_around_anchor(anchor, num_words.out, num_words.pos)

\* `for attempt in range(10)` for one missing anchor
RECURSIVE integrate_attempts(_, _, _)
RECURSIVE integrate_candidate(_, _, _, _)
integrate_attempts(attempt, anchor, s) ==
  IF attempt >= max_anchor_attempts THEN s
  ELSE IF has(word_unigrams, anchor)
  THEN integrate_candidate(attempt, anchor, s,
         candidateFor(anchor, _sample_sentence_length(s.pos)))
  ELSE integrate_attempts(attempt + 1, anchor, s)

integrate_candidate(attempt, anchor, s, candidate) ==
  IF Truthy(candidate.out) /\ contains(lower(anchor), lower(candidate.out))
  THEN replaced(s.out, candidate)
  ELSE integrate_attempts(attempt + 1, anchor, [s EXCEPT !.pos = candidate.pos])

\* `for anchor in missing_anchors` (the position of the random source is
\* never negative)
RECURSIVE integrate_anchors(_, _)
integrate_anchors(missing_anchors, s) ==
  IF missing_anchors = <<>> \/ s.pos < 0 THEN s
  ELSE integrate_anchors(Tail(missing_anchors),
                         integrate_attempts(0, missing_anchors[1], s))

\* [w for w in anchor_words if w.lower() not in text_lower]
RECURSIVE missing(_, _)
missing(anchors, text_lower) ==
  IF anchors = <<>> THEN <<>>
  ELSE (IF contains(lower(anchors[1]), text_lower) THEN <<>> ELSE <<anchors[1]>>)
       \o missing(Tail(anchors), text_lower)

SEP == <<".", " ">>

\* the sentences joined as the word levels join them, without the period
rejoined_with_space(s) == [out |-> join(<<" ">>, s.out), pos |-> s.pos]

\* return '. '.join(sentences)
rejoined(s) == [out |-> join(SEP, s.out), pos |-> s.pos]

_integrate_anchor_words(text, anchors, n, p) ==
  IF ~TruthyList(anchors) THEN [out |-> text, pos |-> p]
  ELSE IF missing(anchors, lower(text)) = <<>> THEN [out |-> text, pos |-> p]
  ELSE rejoined(integrate_anchors(missing(anchors, lower(text)),
                                  [out |-> split(text, SEP), pos |-> p]))

asReturned(r) == returned(r.out, r.pos)

\* the tail shared by the three word levels: join, then integrate the anchors
finish(s, anchors, n) ==
  IF s.exc # "none" THEN raise(s.exc, s.pos)
  ELSE IF TruthyList(anchors)
  THEN asReturned(_integrate_anchor_words(join(<<" ">>, s.sentences), anchors, n, s.pos))
  ELSE returned(join(<<" ">>, s.sentences), s.pos)

(***************************************************************************)
(* Word-level generation.  The sentence loops run one iteration per call   *)
(* of their body operator; a loop of k iterations is evaluated by halving  *)
(* k (the first half is completed before the second half starts), so that *)
(* the evaluation stays shallow for large k.                               *)
(***************************************************************************)
max_attempts == 100

\* locals of a sentence loop
sentenceLocals(p) == [sentences |-> <<>>, attempts |-> 0, pos |-> p, exc |-> "none"]

\* attempts += 1 moved under `if words:`: only a sentence counts as an attempt
withSentence_counting_sentences(s, words) ==
  IF words.exc # "none" THEN [s EXCEPT !.pos = words.pos, !.exc = words.exc]
  ELSE [sentences |-> IF words.result # <<>>
                      THEN Append(s.sentences, format(join(<<" ">>, words.result)))
                      ELSE s.sentences,
        attempts |-> IF words.result # <<>> THEN s.attempts + 1 ELSE s.attempts,
        pos |-> words.pos, exc |-> "none"]

\* `if words: sentences.append(<formatted>)`, and attempts += 1 in word-1
withSentence(s, words) ==
  IF words.exc # "none" THEN [s EXCEPT !.pos = words.pos, !.exc = words.exc]
  ELSE [sentences |-> IF words.result # <<>>
                      THEN Append(s.sentences, format(join(<<" ">>, words.result)))
                      ELSE s.sentences,
        attempts |-> s.attempts + 1, pos |-> words.pos, exc |-> "none"]

\* `for _ in range(sentence_length)` of generate_word_1
RECURSIVE word_1_words(_, _, _)
word_1_words(i, sentence_length, s) ==
  IF i >= sentence_length \/ s.exc # "none" THEN s
  ELSE word_1_words(i + 1, sentence_length,
         drawnInto(s, _weighted_choice(word_unigram_probs, s.pos)))

word_1_sentence(sentence_length) ==
  word_1_words(0, sentence_length.out, locals(<<>>, None, sentence_length.pos))

\* one test of the while condition and, if it holds, one run of the body
word_1_attempt(n, s) ==
  IF Len(s.sentences) < n /\ s.attempts < max_attempts
  THEN withSentence(s, word_1_sentence(_sample_sentence_length(s.pos)))
  ELSE s

\* k tests of the while condition
RECURSIVE word_1_attempts(_, _, _)
word_1_attempts(k, n, s) ==
  IF k = 0 THEN s
  ELSE IF k = 1 THEN word_1_attempt(n, s)
  ELSE LET half == word_1_attempts(k \div 2, n, s)
       IN  IF half.pos >= 0 THEN word_1_attempts(k - (k \div 2), n, half) ELSE half

\* the while loop: its condition fails at the latest after max_attempts runs
generate_word_1_loop(n, s) == word_1_attempts(max_attempts, n, s)

generate_word_1(n, anchors, p) ==
  finish(generate_word_1_loop(n, sentenceLocals(p)), anchors, n)

\* `while len(words) < sentence_length` of generate_word_2
\* next_word of generate_word_2: the bigram chain of current, else unigrams
word_2_next_word(s) ==
  orElse(_weighted_choice(get(word_bigram_chains, [s |-> s.current], <<>>), s.pos),
         word_unigram_probs)

RECURSIVE word_2_words(_, _)
RECURSIVE word_2_next(_, _, _)
word_2_words(sentence_length, s) ==
  IF Len(s.result) >= sentence_length THEN s
  ELSE word_2_next(sentence_length, s, word_2_next_word(s))

word_2_next(sentence_length, s, next_word) ==
  IF Truthy(next_word.out)
  THEN word_2_words(sentence_length, extended(s, next_word))
  ELSE [s EXCEPT !.pos = next_word.pos]

word_2_sentence(sentence_length) ==
  word_2_words(sentence_length.out,
    drawnInto(locals(<<>>, None, sentence_length.pos),
              _weighted_choice(word_unigram_probs, sentence_length.pos)))

\* one iteration of `for _ in range(num_sentences)`
word_2_iteration(s) ==
  withSentence(s, word_2_sentence(_sample_sentence_length(s.pos)))

RECURSIVE generate_word_2_loop(_, _)
generate_word_2_loop(k, s) ==
  IF k <= 0 THEN s
  ELSE IF k = 1 THEN word_2_iteration(s)
  ELSE LET half == generate_word_2_loop(k \div 2, s)
       IN  IF half.pos >= 0 THEN generate_word_2_loop(k - (k \div 2), half) ELSE half

generate_word_2(n, anchors, p) ==
  IF word_bigram_chains = <<>> THEN generate_word_1(n, anchors, p)
  ELSE finish(generate_word_2_loop(n, sentenceLocals(p)), anchors, n)

\* `while len(words) < sentence_length` of generate_word_3
\* next_word of generate_word_3: the trigram chain of the context, else the
\* bigram chain of words[-1], else unigrams
word_3_next_word(s) ==
  orElse(orElse(_weighted_choice(
                  get(word_trigram_chains, contextOf(s.result), <<>>), s.pos),
                get(word_bigram_chains, [s |-> last(s.result)], <<>>)),
         word_unigram_probs)

RECURSIVE word_3_words(_, _)
RECURSIVE word_3_next(_, _, _)
word_3_words(sentence_length, s) ==
  IF Len(s.result) >= sentence_length THEN s
  \* words[-2] on a list shorter than two
  ELSE IF Len(s.result) < 2 THEN [s EXCEPT !.exc = "IndexError"]
  ELSE word_3_next(sentence_length, s, word_3_next_word(s))

word_3_next(sentence_length, s, next_word) ==
  IF Truthy(next_word.out)
  THEN word_3_words(sentence_length, extended(s, next_word))
  ELSE [s EXCEPT !.pos = next_word.pos]

word_3_sentence(sentence_length) ==
  word_3_words(sentence_length.out,
    seedTwo(locals(<<>>, None, sentence_length.pos),
            _weighted_choice(word_unigram_probs, sentence_length.pos),
            word_unigram_probs))

\* one iteration of `for _ in range(num_sentences)`; an exception ends the loop
word_3_iteration(s) ==
  IF s.exc # "none" THEN s
  ELSE withSentence(s, word_3_sentence(_sample_sentence_length(s.pos)))

RECURSIVE generate_word_3_loop(_, _)
generate_word_3_loop(k, s) ==
  IF k <= 0 THEN s
  ELSE IF k = 1 THEN word_3_iteration(s)
  ELSE LET half == generate_word_3_loop(k \div 2, s)
       IN  IF half.pos >= 0 THEN generate_word_3_loop(k - (k \div 2), half) ELSE half

generate_word_3(n, anchors, p) ==
  IF word_trigram_chains = <<>> THEN generate_word_2(n, anchors, p)
  ELSE finish(generate_word_3_loop(n, sentenceLocals(p)), anchors, n)

(***************************************************************************)
(* The generation interface.                                               *)
(***************************************************************************)
level_map == {"char-0", "char-1", "char-2", "char-3", "word-1", "word-2", "word-3"}

\* the membership test forgotten: an unknown level falls through to word-3
generate_unchecked(lv, len, n, anchors, p) ==
  IF lv = "char-0" THEN generate_char_0(len, p)
  ELSE IF lv = "char-1" THEN generate_char_1(len, p)
  ELSE IF lv = "char-2" THEN generate_char_2(len, p)
  ELSE IF lv = "char-3" THEN generate_char_3(len, p)
  ELSE IF lv = "word-1" THEN generate_word_1(n, anchors, p)
  ELSE IF lv = "word-2" THEN generate_word_2(n, anchors, p)
  ELSE generate_word_3(n, anchors, p)

generate(lv, len, n, anchors, p) ==
  IF lv \notin level_map THEN raise("ValueError", p)
  ELSE IF lv = "char-0" THEN generate_char_0(len, p)
  ELSE IF lv = "char-1" THEN generate_char_1(len, p)
  ELSE IF lv = "char-2" THEN generate_char_2(len, p)
  ELSE IF lv = "char-3" THEN generate_char_3(len, p)
  ELSE IF lv = "word-1" THEN generate_word_1(n, anchors, p)
  ELSE IF lv = "word-2" THEN generate_word_2(n, anchors, p)
  ELSE generate_word_3(n, anchors, p)

(***************************************************************************)
(* The sessions and requests explored.                                     *)
(***************************************************************************)
str2(x, y) == x \o DELIM \o y

str3(x, y, z) == x \o DELIM \o y \o DELIM \o z

item(key, value) == [k |-> key, v |-> value]

CharUnigramTables == {<<>>, <<item(<<"a">>, 1), item(<<"b">>, 1)>>}

CharBigramTables == {<<>>, <<item(str2(<<"a">>, <<"b">>), 1)>>}

CharTrigramTables == {<<>>, <<item(str3(<<"a">>, <<"b">>, <<"a">>), 1)>>}

WordUnigramTables == {<<>>, <<item(<<"a", "b">>, 1), item(<<"b">>, 1)>>}

WordBigramTables == {<<>>, <<item(str2(<<"a", "b">>, <<"b">>), 1)>>}

WordTrigramTables == {<<>>, <<item(str3(<<"a", "b">>, <<"b">>, <<"a", "b">>), 1)>>}

SentenceStats ==
  {<<>>,
   <<item("total_sentences", 2),
     item("length_distribution", <<item(<<"1">>, 1), item(<<"3">>, 1)>>)>>}

AnchorLists == {NoneList, <<<<"z">>>>, <<<<"b">>>>, <<<<"A", "b">>, <<"z">>>>}

\* a populated table of each kind
Populated(tabs) == CHOOSE t \in tabs : t # <<>>

\* the sessions: every combination of empty and populated character tables
\* beside populated word tables, and every combination of word tables and
\* sentence stats beside populated character tables
Sessions ==
  {<<cu, cb, ct, Populated(WordUnigramTables), Populated(WordBigramTables),
     Populated(WordTrigramTables), Populated(SentenceStats)>> :
     cu \in CharUnigramTables, cb \in CharBigramTables, ct \in CharTrigramTables}
  \cup
  {<<Populated(CharUnigramTables), Populated(CharBigramTables),
     Populated(CharTrigramTables), wu, wb, wt, ss>> :
     wu \in WordUnigramTables, wb \in WordBigramTables, wt \in WordTrigramTables,
     ss \in SentenceStats}

Tapes == [1..TapeLen -> 0..(RMax - 1)]

default_length == 100

default_num_sentences == 3

request(lv, len, n, anchors) ==
  [level |-> lv, length |-> len, num_sentences |-> n, anchor_words |-> anchors]

Requests ==
  {request(lv, len, default_num_sentences, NoneList) :
     lv \in {"char-0", "char-1", "char-2", "char-3"}, len \in 0..MaxLength}
  \cup {request(lv, default_length, n, anchors) :
     lv \in {"word-1", "word-2", "word-3"}, n \in 0..MaxSentences,
     anchors \in AnchorLists}
  \cup {request("word-4", default_length, default_num_sentences, NoneList)}

(***************************************************************************)
(* The state machine: a session is constructed, then serves requests.      *)
(***************************************************************************)
\* random state after d draws: the tape of outcomes still to come
advance(t, d) == [i \in 1..TapeLen |-> t[((i - 1 + d) % TapeLen) + 1]]

\* TextGenerator.__init__: load the seven tables, build the models
Constructed(sessions) ==
  /\ \E session \in sessions :
       /\ char_unigrams = session[1]
       /\ char_bigrams = session[2]
       /\ char_trigrams = session[3]
       /\ word_unigrams = session[4]
       /\ word_bigrams = session[5]
       /\ word_trigrams = session[6]
       /\ sentence_stats = session[7]
  /\ char_unigram_probs = _frequencies_to_probabilities(char_unigrams)
  /\ char_bigram_chains = _build_markov_chains(char_bigrams)
  /\ char_trigram_chains = _build_markov_chains(char_trigrams)
  /\ word_unigram_probs = _frequencies_to_probabilities(word_unigrams)
  /\ word_bigram_chains = _build_markov_chains(word_bigrams)
  /\ word_trigram_chains = _build_markov_chains(word_trigrams)
  /\ pc = "idle"
  /\ level = "" /\ length = 0 /\ num_sentences = 0 /\ anchor_words = NoneList
  /\ ndraws = 0 /\ result = <<>> /\ raised = "none" /\ message = <<>>
  /\ frame = <<>>
  /\ files = <<>>

Init ==
  /\ Constructed(Sessions)
  /\ tape \in Tapes
  /\ fn = "generate" /\ arg = <<>>

\* one call of TextGenerator.generate, from entry to return or raise
Serve(requests) ==
  /\ pc = "idle" /\ fn = "generate"
  /\ \E req \in requests :
       LET r == generate(req.level, req.length, req.num_sentences,
                         req.anchor_words, 0)
       IN  /\ level' = req.level
           /\ length' = req.length
           /\ num_sentences' = req.num_sentences
           /\ anchor_words' = req.anchor_words
           /\ result' = r.out
           /\ ndraws' = r.pos
           /\ tape' = advance(tape, r.pos)
           /\ raised' = r.exc
           /\ message' = messageOf(r.exc, req.level)
  /\ pc' = "done"
  /\ UNCHANGED <<files, tables, models, fn, arg, frame>>

Generate == Serve(Requests)

\* the caller has taken the result (or caught the exception)
Return ==
  /\ pc = "done"
  /\ pc' = "idle"
  /\ level' = "" /\ length' = 0 /\ num_sentences' = 0 /\ anchor_words' = NoneList
  /\ ndraws' = 0 /\ result' = <<>> /\ raised' = "none" /\ message' = <<>>
  /\ UNCHANGED <<files, tables, models, tape, fn, arg, frame>>

Next == Generate \/ Return

Spec == Init /\ [][Next]_vars

(***************************************************************************)
(* Properties of generate, checked under Spec.                             *)
(***************************************************************************)
CharLevels == {"char-0", "char-1", "char-2", "char-3"}

WordLevels == {"word-1", "word-2", "word-3"}

\* C1: for each of the seven levels, whatever tables are empty, generate
\* returns a string and raises no exception.
C1_NeverRaises ==
  (pc = "done" /\ level \in level_map) => raised = "none"

\* C2: with an empty trigram model level 3 makes the same draws and returns
\* the same result as level 2 with the same arguments, and with an empty
\* bigram model level 2 does as level 1; the test is made once per call.
C2_WholeCallDelegation ==
  pc = "idle" =>
    /\ \A len \in 0..MaxLength :
         /\ char_trigram_chains = <<>>
              => generate_char_3(len, 0) = generate_char_2(len, 0)
         /\ char_bigram_chains = <<>>
              => generate_char_2(len, 0) = generate_char_1(len, 0)
    /\ \A n \in 0..MaxSentences, anchors \in AnchorLists :
         /\ word_trigram_chains = <<>>
              => generate_word_3(n, anchors, 0) = generate_word_2(n, anchors, 0)
         /\ word_bigram_chains = <<>>
              => generate_word_2(n, anchors, 0) = generate_word_1(n, anchors, 0)

\* a char-3 call on a session without trigrams but with bigrams and unigrams
\* has produced text
C2_Witness ==
  /\ pc = "done" /\ level = "char-3" /\ length = MaxLength
  /\ char_trigram_chains = <<>> /\ char_bigram_chains # <<>>
  /\ Len(result) = MaxLength

\* C3: at each word level a request for 0 sentences returns the empty
\* string, whatever the anchor words.
C3_ZeroSentencesEmpty ==
  (pc = "done" /\ level \in WordLevels /\ num_sentences = 0 /\ raised = "none")
    => result = <<>>

\* C8: a char-level string has at most `length` characters, exactly
\* `length` at char-0 and whenever the character unigram distribution is
\* non-empty, and length 0 yields the empty string.
C8_CharLength ==
  (pc = "done" /\ level \in CharLevels) =>
    /\ raised = "none" => Len(result) <= length
    /\ (level = "char-0" \/ char_unigram_probs # <<>>)
         => (raised = "none" /\ Len(result) = length)
    /\ length = 0 => (raised = "none" /\ result = <<>>)

\* a char-2 call for 0 characters on a session with bigrams and unigrams,
\* whose seed character is cut off by the slice
C8_Witness ==
  /\ pc = "done" /\ level = "char-2" /\ length = 0 /\ ndraws = 1
  /\ char_bigram_chains # <<>> /\ result = <<>>

\* C10: a call with an unknown level raises a ValueError naming the level,
\* draws nothing and changes no table or model; once the caller has caught
\* it the session is as before the call, so that the next call is served as
\* if the rejected one had not happened.
C10_UnknownLevelRejected ==
  [][/\ (pc = "idle" /\ pc' = "done" /\ level' \notin level_map)
          => /\ raised' = "ValueError" /\ message' = <<"Invalid level: ", level',
                                                        ". Must be 'char-0' through 'word-3'">>
             /\ ndraws' = 0 /\ result' = <<>>
             /\ tape' = tape /\ tables' = tables /\ models' = models
     /\ (pc = "done" /\ raised = "ValueError" /\ pc' = "idle")
          => (tape' = tape /\ tables' = tables /\ models' = models)]_vars

\* a call with the unknown level word-4 has been rejected
C10_Witness ==
  /\ pc = "done" /\ level = "word-4" /\ raised = "ValueError" /\ ndraws = 0

(***************************************************************************)
(* Long requests: sentence counts around the attempt limit of word-1, on   *)
(* sessions with a word vocabulary, without anchor words.                  *)
(***************************************************************************)
ManySessions ==
  {<<Populated(CharUnigramTables), Populated(CharBigramTables),
     Populated(CharTrigramTables), Populated(WordUnigramTables), wb, wt, ss>> :
     wb \in WordBigramTables, wt \in WordTrigramTables, ss \in SentenceStats}

ManySentences == (0..MaxSentences) \cup {max_attempts, max_attempts + 1}

ManyRequests ==
  {request(lv, default_length, n, NoneList) :
     lv \in {"word-1", "word-2", "word-3"}, n \in ManySentences}

InitMany ==
  /\ Constructed(ManySessions)
  /\ tape \in Tapes
  /\ fn = "generate" /\ arg = <<>>

GenerateMany == Serve(ManyRequests)

NextMany == GenerateMany \/ Return

SpecMany == InitMany /\ [][NextMany]_vars

\* number of occurrences of the character c in the string s
CountOf(c, s) == Cardinality({i \in 1..Len(s) : s[i] = c})

\* every sentence length the session can sample is at least 1
LengthsPositive ==
  \A i \in 1..Len(get(sentence_stats, "length_distribution", <<>>)) :
     int(get(sentence_stats, "length_distribution", <<>>)[i].k) >= 1

\* C9: with a non-empty word unigram distribution, sentence lengths of at
\* least 1 and no anchors, a request for n sentences returns exactly n
\* sentences (each ends with its period), for every n and word level.
C9_ExactlyNSentences ==
  (/\ pc = "done" /\ level \in WordLevels /\ anchor_words = NoneList
   /\ word_unigram_probs # <<>> /\ LengthsPositive /\ raised = "none")
    => CountOf(".", result) = num_sentences

(***************************************************************************)
(* The helper methods called on their own: a session is constructed, one   *)
(* helper is called once on arguments drawn from the sets below.           *)
(***************************************************************************)
\* most entries of an argument table
MaxTable == 2
\* largest count in an argument table
MaxCount == 3
\* longest text handed to _integrate_anchor_words
MaxText == 4

Tokens == {<<"a">>, <<"a", "b">>}

\* the dicts of at most n entries with keys from keys and values from values
RECURSIVE Dicts(_, _, _)
Dicts(keys, values, n) ==
  IF n = 0 THEN {<<>>}
  ELSE Dicts(keys, values, n - 1) \cup
       {Append(e[1], item(e[2], e[3])) :
          e \in {x \in Dicts(keys, values, n - 1) \X keys \X values :
                   Len(x[1]) = n - 1 /\ ~has(x[1], x[2])}}

\* keys of two tokens, and keys of three tokens that start with "a"
NgramKeys ==
  {str2(x, y) : x \in Tokens, y \in Tokens}
  \cup {str3(<<"a">>, y, z) : y \in Tokens, z \in Tokens}

\* keys of other numbers of parts: 'aa' (no delimiter) and 'a||a||a||a'
OtherKeys ==
  {<<"a", "a">>, <<"a">> \o DELIM \o <<"a">> \o DELIM \o <<"a">> \o DELIM \o <<"a">>}

NgramTables == Dicts(NgramKeys \cup OtherKeys, 1..MaxCount, MaxTable)

FrequencyTables == Dicts(Tokens \cup {<<"c">>}, 1..MaxCount, MaxTable)

\* a dict of weights w / (sum of the w), or w / 1 when every w is zero
weighted(f) ==
  [i \in 1..Len(f) |->
     item(f[i].k, [num |-> f[i].v, den |-> IF sum(f) = 0 THEN 1 ELSE sum(f)])]

Distributions == {weighted(f) : f \in Dicts(Tokens, 0..MaxCount, MaxTable)}

TextChars == {"b", ".", " "}

Texts == UNION {[1..n -> TextChars] : n \in 0..MaxText}

AnchorArguments == AnchorLists \cup {<<>>}

\* the session with every table populated
FullSession ==
  <<Populated(CharUnigramTables), Populated(CharBigramTables),
    Populated(CharTrigramTables), Populated(WordUnigramTables),
    Populated(WordBigramTables), Populated(WordTrigramTables),
    Populated(SentenceStats)>>

\* the tape of a call that does not draw
ZeroTape == [i \in 1..TapeLen |-> 0]

\* sentence lengths as analyze.py writes them: str(length) of a word count
LengthKeys == {<<"1">>, <<"3">>, <<"1", "2">>}

\* sentence stats: none, without a length distribution, with a distribution
\* of at most MaxTable lengths
LengthStats ==
  {<<>>, <<item("total_sentences", 2)>>}
  \cup {<<item("total_sentences", 2), item("length_distribution", d)>> :
          d \in Dicts(LengthKeys, 0..MaxCount, MaxTable)}

\* the full session with each of the sentence stats
StatsSessions == {[FullSession EXCEPT ![7] = ss] : ss \in LengthStats}

\* the full session with a word bigram table that continues both words
AnchorSession ==
  [FullSession EXCEPT ![5] = <<item(str2(<<"a", "b">>, <<"b">>), 1),
                               item(str2(<<"b">>, <<"a", "b">>), 1)>>]

\* largest num_words handed to _generate_around_anchor
MaxWords == 5

InitFn ==
  \/ /\ Constructed({FullSession})
     /\ \/ /\ fn = "_build_markov_chains"
           /\ \E ngrams \in NgramTables : arg = <<ngrams>>
           /\ tape = ZeroTape
        \/ /\ fn = "_frequencies_to_probabilities"
           /\ \E frequencies \in FrequencyTables : arg = <<frequencies>>
           /\ tape = ZeroTape
        \/ /\ fn = "_weighted_choice"
           /\ \E choices \in Distributions : arg = <<choices>>
           /\ tape \in Tapes
        \/ /\ fn = "_integrate_anchor_words"
           /\ \E text \in Texts, anchors \in AnchorArguments :
                arg = <<text, anchors, default_num_sentences>>
           /\ tape \in Tapes
  \/ /\ Constructed(StatsSessions)
     /\ fn = "_sample_sentence_length" /\ arg = <<>>
     /\ tape \in Tapes
  \/ /\ Constructed({FullSession, AnchorSession})
     /\ fn = "_generate_around_anchor"
     /\ \E anchor_word \in Tokens \cup {<<"b">>}, num_words \in 0..MaxWords :
          arg = <<anchor_word, num_words>>
     /\ tape \in Tapes

\* a helper that does not draw has returned value
Computed(value) ==
  /\ pc' = "done"
  /\ result' = value
  /\ ndraws' = 0
  /\ raised' = "none"
  /\ UNCHANGED <<files, tables, models, fn, arg, level, length, num_sentences,
                 anchor_words, tape, message, frame>>

\* a helper that draws has returned r.out and left the random source at r.pos
Drawn(r) ==
  /\ pc' = "done"
  /\ result' = r.out
  /\ ndraws' = r.pos
  /\ tape' = advance(tape, r.pos)
  /\ raised' = "none"
  /\ UNCHANGED <<files, tables, models, fn, arg, level, length, num_sentences,
                 anchor_words, message, frame>>

BuildMarkovChains ==
  /\ pc = "idle" /\ fn = "_build_markov_chains"
  /\ Computed(_build_markov_chains(arg[1]))

FrequenciesToProbabilities ==
  /\ pc = "idle" /\ fn = "_frequencies_to_probabilities"
  /\ Computed(_frequencies_to_probabilities(arg[1]))

WeightedChoice ==
  /\ pc = "idle" /\ fn = "_weighted_choice"
  /\ Drawn(_weighted_choice(arg[1], 0))

IntegrateAnchorWords ==
  /\ pc = "idle" /\ fn = "_integrate_anchor_words"
  /\ Drawn(_integrate_anchor_words(arg[1], arg[2], arg[3], 0))

SampleSentenceLength ==
  /\ pc = "idle" /\ fn = "_sample_sentence_length"
  /\ Drawn(_sample_sentence_length(0))

GenerateAroundAnchor ==
  /\ pc = "idle" /\ fn = "_generate_around_anchor"
  /\ Drawn(_generate_around_anchor(arg[1], arg[2], 0))

NextFn ==
  \/ BuildMarkovChains
  \/ FrequenciesToProbabilities
  \/ WeightedChoice
  \/ IntegrateAnchorWords
  \/ SampleSentenceLength
  \/ GenerateAroundAnchor

SpecFn == InitFn /\ [][NextFn]_vars

(***************************************************************************)
(* Properties of the helper methods, checked under SpecFn.  Probabilities  *)
(* are compared as exact fractions.                                        *)
(***************************************************************************)
\* the fraction p equals count / total
IsRatio(p, count, total) ==
  p.den > 0 /\ total > 0 /\ p.num * total = count * p.den

AddFractions(x, y) ==
  [num |-> x.num * y.den + y.num * x.den, den |-> x.den * y.den]

\* the sum of the probabilities of a distribution
RECURSIVE TotalProbability(_)
TotalProbability(d) ==
  IF d = <<>> THEN [num |-> 0, den |-> 1]
  ELSE AddFractions(d[1].v, TotalProbability(Tail(d)))

SumsToOne(d) ==
  TotalProbability(d).den > 0 /\ TotalProbability(d).num = TotalProbability(d).den

\* the sum of the values a table gives to the keys of a set
RECURSIVE CountOver(_, _)
CountOver(table, keys) ==
  IF keys = {} THEN 0
  ELSE LET key == CHOOSE x \in keys : TRUE
       IN  get(table, key, 0) + CountOver(table, keys \ {key})

\* every anchor that the text lacks is no key of the word unigram table
MissingAnchorsUnknown(text, anchors) ==
  TruthyList(anchors) =>
    \A i \in 1..Len(anchors) :
       contains(lower(anchors[i]), lower(text)) \/ ~has(word_unigrams, anchors[i])

\* C4: _integrate_anchor_words returns the text unchanged, without raising,
\* whenever every anchor missing from the text is absent from the word
\* unigram vocabulary, for any text.
C4_UnknownAnchorsLeaveText ==
  (/\ pc = "done" /\ fn = "_integrate_anchor_words"
   /\ MissingAnchorsUnknown(arg[1], arg[2]))
    => (raised = "none" /\ result = arg[1])

\* a text of two sentences and an anchor that is in neither the text nor the
\* vocabulary
C4_Witness ==
  /\ pc = "done" /\ fn = "_integrate_anchor_words"
  /\ arg[1] = <<"b", ".", " ", "b">> /\ arg[2] = <<<<"z">>>>
  /\ ~has(word_unigrams, <<"z">>)
  /\ result = arg[1]

\* C5: in the chains built from a table of positive counts whose keys are
\* two or three tokens joined by '||', every context has a non-empty
\* distribution that sums to 1, each continuation has the probability
\* count / (total count of its own context), and a context appears only if
\* the table holds a continuation of it.
C5_PerContextNormalisation ==
  (pc = "done" /\ fn = "_build_markov_chains") =>
    /\ raised = "none"
    /\ \A i \in 1..Len(result) : result[i].v # <<>> /\ SumsToOne(result[i].v)
    /\ \A x \in Tokens :
         /\ has(result, [s |-> x]) <=> \E y \in Tokens : has(arg[1], str2(x, y))
         /\ \A y \in Tokens :
              has(get(result, [s |-> x], <<>>), y) <=> has(arg[1], str2(x, y))
         /\ \A y \in Tokens :
              has(arg[1], str2(x, y)) =>
                IsRatio(get(get(result, [s |-> x], <<>>), y, None),
                        get(arg[1], str2(x, y), 0),
                        CountOver(arg[1], {str2(x, z) : z \in Tokens}))
    /\ \A x \in Tokens, y \in Tokens :
         /\ has(result, [a |-> x, b |-> y])
              <=> \E z \in Tokens : has(arg[1], str3(x, y, z))
         /\ \A z \in Tokens :
              has(get(result, [a |-> x, b |-> y], <<>>), z)
                <=> has(arg[1], str3(x, y, z))
         /\ \A z \in Tokens :
              has(arg[1], str3(x, y, z)) =>
                IsRatio(get(get(result, [a |-> x, b |-> y], <<>>), z, None),
                        get(arg[1], str3(x, y, z), 0),
                        CountOver(arg[1], {str3(x, y, w) : w \in Tokens}))
    /\ Len(result) =
         Cardinality({x \in Tokens : \E y \in Tokens : has(arg[1], str2(x, y))})
         + Cardinality({c \in Tokens \X Tokens :
                          \E z \in Tokens : has(arg[1], str3(c[1], c[2], z))})

\* the table {a||ab: 3, a||a: 1} has given the context a the distribution
\* {ab: 3/4, a: 1/4}
C5_Witness ==
  /\ pc = "done" /\ fn = "_build_markov_chains"
  /\ arg[1] = <<item(str2(<<"a">>, <<"a", "b">>), 3), item(str2(<<"a">>, <<"a">>), 1)>>
  /\ result = <<item([s |-> <<"a">>],
                     <<item(<<"a", "b">>, [num |-> 3, den |-> 4]),
                       item(<<"a">>, [num |-> 1, den |-> 4])>>)>>

\* C6: _frequencies_to_probabilities maps the empty table to the empty
\* distribution and a table of positive counts to a distribution over the
\* same keys, each with probability count / (sum of all counts), all
\* probabilities at least 0 and summing to 1.
C6_FrequenciesToProbabilities ==
  (pc = "done" /\ fn = "_frequencies_to_probabilities") =>
    /\ raised = "none"
    /\ arg[1] = <<>> => result = <<>>
    /\ Len(result) = Len(arg[1])
    /\ \A i \in 1..Len(result) :
         /\ result[i].k = arg[1][i].k
         /\ IsRatio(result[i].v, arg[1][i].v,
                    CountOver(arg[1], {arg[1][j].k : j \in 1..Len(arg[1])}))
         /\ result[i].v.num >= 0
    /\ arg[1] # <<>> => SumsToOne(result)

\* the table {a: 2, c: 1} has given {a: 2/3, c: 1/3}
C6_Witness ==
  /\ pc = "done" /\ fn = "_frequencies_to_probabilities"
  /\ arg[1] = <<item(<<"a">>, 2), item(<<"c">>, 1)>>
  /\ result = <<item(<<"a">>, [num |-> 2, den |-> 3]),
                item(<<"c">>, [num |-> 1, den |-> 3])>>

\* C7: _weighted_choice returns None if and only if the distribution is
\* empty; on a non-empty distribution it makes one draw and returns a key of
\* the distribution, and it never raises.
C7_WeightedChoice ==
  (pc = "done" /\ fn = "_weighted_choice") =>
    /\ raised = "none"
    /\ result = None <=> arg[1] = <<>>
    /\ arg[1] # <<>> => (ndraws = 1 /\ has(arg[1], result))

\* a draw from a distribution of two keys has returned the second key
C7_Witness ==
  /\ pc = "done" /\ fn = "_weighted_choice"
  /\ Len(arg[1]) = 2 /\ ndraws = 1 /\ result = arg[1][2].k

(***************************************************************************)
(* A call of generate followed loop by loop.  frame holds the local        *)
(* variables of the running method: at is the loop the call is in front    *)
(* of ("extend": the while loop that extends result or words, "sentence":  *)
(* the sentence loop of a word level, "anchors": the attempts for the      *)
(* first anchor of todo, "return": the return statement), w the locals of  *)
(* the extend loop and bound its length or sentence_length, s the locals   *)
(* of the sentence loop and i its index, text the sentences that anchor    *)
(* integration works on, ret the value to return.  A step is one test of   *)
(* a loop condition with the body that follows it; `for` loops without an  *)
(* inner while loop run within one step.                                   *)
(***************************************************************************)
activation ==
  [at |-> "return", method |-> "", w |-> locals(<<>>, None, 0), bound |-> 0,
   s |-> sentenceLocals(0), i |-> 0, todo |-> <<>>, attempt |-> 0,
   text |-> [out |-> <<>>, pos |-> 0], ret |-> returned(<<>>, 0)]

\* the method whose body runs for a level: a level whose own model is empty
\* hands the call to the level below
delegate(lv) ==
  IF lv = "char-0" THEN "generate_char_0"
  ELSE IF lv = "char-3" /\ char_trigram_chains # <<>> THEN "generate_char_3"
  ELSE IF lv \in {"char-2", "char-3"} /\ char_bigram_chains # <<>> THEN "generate_char_2"
  ELSE IF lv \in {"char-1", "char-2", "char-3"} THEN "generate_char_1"
  ELSE IF lv = "word-3" /\ word_trigram_chains # <<>> THEN "generate_word_3"
  ELSE IF lv \in {"word-2", "word-3"} /\ word_bigram_chains # <<>> THEN "generate_word_2"
  ELSE "generate_word_1"

\* generate up to the first loop of the method that runs
entered(lv, len, method) ==
  IF lv \notin level_map THEN [activation EXCEPT !.ret = raise("ValueError", 0)]
  ELSE IF method = "generate_char_0"
  THEN [activation EXCEPT !.method = method, !.ret = generate_char_0(len, 0)]
  ELSE IF method = "generate_char_1"
  THEN [activation EXCEPT !.method = method, !.ret = generate_char_1(len, 0)]
  ELSE IF method = "generate_char_2"
  THEN [activation EXCEPT !.at = "extend", !.method = method, !.bound = len,
          !.w = drawnInto(locals(<<>>, None, 0),
                          _weighted_choice(char_unigram_probs, 0))]
  ELSE IF method = "generate_char_3"
  THEN [activation EXCEPT !.at = "extend", !.method = method, !.bound = len,
          !.w = seedTwo(locals(<<>>, None, 0),
                        _weighted_choice(char_unigram_probs, 0),
                        char_unigram_probs)]
  ELSE [activation EXCEPT !.at = "sentence", !.method = method]

CharMethods == {"generate_char_2", "generate_char_3"}

TrigramMethods == {"generate_char_3", "generate_word_3"}

\* next_char or next_word of the running method
next_token(f) ==
  IF f.method = "generate_char_2" THEN char_2_next_char(f.w)
  ELSE IF f.method = "generate_char_3" THEN char_3_next_char(f.w)
  ELSE IF f.method = "generate_word_2" THEN word_2_next_word(f.w)
  ELSE word_3_next_word(f.w)

\* after the extend loop: a character level returns, a word level appends the
\* sentence and goes on with the sentence loop
left(f) ==
  IF f.method \in CharMethods
  THEN [f EXCEPT !.at = "return", !.ret = joined(f.w, f.bound)]
  ELSE [f EXCEPT !.at = "sentence", !.s = withSentence(f.s, f.w), !.i = f.i + 1]

\* `if next: append(next) else: break`
appended(f, token) ==
  IF Truthy(token.out) THEN [f EXCEPT !.w = extended(f.w, token)]
  ELSE left([f EXCEPT !.w.pos = token.pos])

\* one iteration of the extend loop
extend(f) ==
  IF f.method \in TrigramMethods /\ Len(f.w.result) < 2
  THEN left([f EXCEPT !.w.exc = "IndexError"])
  ELSE appended(f, next_token(f))

\* the contexts one iteration of the extend loop looks up in the trigram
\* model and in the bigram model of its level
lookups(f) ==
  IF f.method \in TrigramMethods
  THEN IF Len(f.w.result) < 2 THEN [trigram |-> <<>>, bigram |-> <<>>]
       ELSE [trigram |-> <<contextOf(f.w.result)>>,
             bigram |->
               IF _weighted_choice(
                    get(IF f.method \in CharMethods
                        THEN char_trigram_chains ELSE word_trigram_chains,
                        contextOf(f.w.result), <<>>), f.w.pos).out = None
               THEN <<[s |-> last(f.w.result)]>> ELSE <<>>]
  ELSE [trigram |-> <<>>, bigram |-> <<[s |-> f.w.current]>>]

\* chains[context] on the defaultdict that built the chains: a missing
\* context is inserted with an empty distribution
looked_by_index(chains, contexts) ==
  IF contexts = <<>> \/ has(chains, contexts[1]) THEN chains
  ELSE Append(chains, item(contexts[1], <<>>))

\* a model after chains.get(context, {}) for each of the contexts: get
\* inserts nothing
looked(chains, contexts) == chains

\* the start of a sentence of generate_word_2 or generate_word_3
started(f, sentence_length) ==
  [f EXCEPT !.at = "extend", !.bound = sentence_length.out,
     !.w = IF f.method = "generate_word_2"
           THEN drawnInto(locals(<<>>, None, sentence_length.pos),
                          _weighted_choice(word_unigram_probs, sentence_length.pos))
           ELSE seedTwo(locals(<<>>, None, sentence_length.pos),
                        _weighted_choice(word_unigram_probs, sentence_length.pos),
                        word_unigram_probs)]

\* after the sentence loop: join, then integrate the anchors that are missing
concluded(f, anchors, text) ==
  IF f.s.exc # "none" THEN [f EXCEPT !.at = "return", !.ret = raise(f.s.exc, f.s.pos)]
  ELSE IF TruthyList(anchors) /\ missing(anchors, lower(text)) # <<>>
  THEN [f EXCEPT !.at = "anchors", !.todo = missing(anchors, lower(text)),
          !.attempt = 0, !.text = [out |-> split(text, SEP), pos |-> f.s.pos]]
  ELSE [f EXCEPT !.at = "return", !.ret = returned(text, f.s.pos)]

\* one attempt for the anchor todo[1] with its candidate sentence
attempted(f, candidate) ==
  IF Truthy(candidate.out) /\ contains(lower(f.todo[1]), lower(candidate.out))
  THEN [f EXCEPT !.text = replaced(f.text.out, candidate),
          !.todo = Tail(f.todo), !.attempt = 0]
  ELSE [f EXCEPT !.text.pos = candidate.pos, !.attempt = f.attempt + 1]

\* word tables over the words a and b: an anchor that is one of them is not
\* a part of the other
StepSessions ==
  {<<cu, cb, ct, Populated(CharUnigramTables), Populated(CharBigramTables),
     Populated(CharTrigramTables), Populated(SentenceStats)>> :
     cu \in CharUnigramTables, cb \in CharBigramTables, ct \in CharTrigramTables}
  \cup
  {<<Populated(CharUnigramTables), Populated(CharBigramTables),
     Populated(CharTrigramTables), wu, wb, wt, ss>> :
     wu \in CharUnigramTables, wb \in CharBigramTables, wt \in CharTrigramTables,
     ss \in SentenceStats}

StepRequests ==
  {request(lv, len, default_num_sentences, NoneList) :
     lv \in {"char-0", "char-1", "char-2", "char-3"}, len \in 0..MaxLength}
  \cup {request(lv, default_length, n, anchors) :
     lv \in {"word-1", "word-2", "word-3"}, n \in 0..MaxSentences,
     anchors \in {NoneList, <<<<"b">>>>, <<<<"z">>>>}}
  \cup {request("word-4", default_length, default_num_sentences, NoneList)}

InitSteps ==
  /\ Constructed(StepSessions)
  /\ tape \in Tapes
  /\ fn = "generate" /\ arg = <<>>

\* generate is entered
Call ==
  /\ pc = "idle" /\ fn = "generate"
  /\ \E req \in StepRequests :
       /\ level' = req.level
       /\ length' = req.length
       /\ num_sentences' = req.num_sentences
       /\ anchor_words' = req.anchor_words
       /\ frame' = entered(req.level, req.length, delegate(req.level))
  /\ pc' = "running"
  /\ UNCHANGED <<files, tables, models, fn, arg, tape, ndraws, result, raised, message>>

\* a step of the running call that touches only its local variables
Running(f) ==
  /\ frame' = f
  /\ UNCHANGED <<files, tables, pc, fn, arg, level, length, num_sentences, anchor_words,
                 tape, ndraws, result, raised, message>>

\* the extend loop: its condition holds, the body draws the next token
ExtendToken ==
  /\ pc = "running" /\ frame.at = "extend"
  /\ Len(frame.w.result) < frame.bound
  /\ Running(extend(frame))
  /\ IF frame.method \in CharMethods
     THEN /\ char_trigram_chains' = looked(char_trigram_chains, lookups(frame).trigram)
          /\ char_bigram_chains' = looked(char_bigram_chains, lookups(frame).bigram)
          /\ UNCHANGED <<word_trigram_chains, word_bigram_chains>>
     ELSE /\ word_trigram_chains' = looked(word_trigram_chains, lookups(frame).trigram)
          /\ word_bigram_chains' = looked(word_bigram_chains, lookups(frame).bigram)
          /\ UNCHANGED <<char_trigram_chains, char_bigram_chains>>
  /\ UNCHANGED <<char_unigram_probs, word_unigram_probs>>

\* the extend loop: its condition fails
LeaveLoop ==
  /\ pc = "running" /\ frame.at = "extend"
  /\ Len(frame.w.result) >= frame.bound
  /\ Running(left(frame))
  /\ UNCHANGED models

\* the while loop of generate_word_1: its condition holds, one attempt
Attempt ==
  /\ pc = "running" /\ frame.at = "sentence"
  /\ frame.method = "generate_word_1"
  /\ Len(frame.s.sentences) < num_sentences /\ frame.s.attempts < max_attempts
  /\ Running([frame EXCEPT !.s = word_1_attempt(num_sentences, frame.s)])
  /\ UNCHANGED models

\* the for loop of generate_word_2 and generate_word_3: the next sentence
StartSentence ==
  /\ pc = "running" /\ frame.at = "sentence"
  /\ frame.method # "generate_word_1"
  /\ frame.i < num_sentences /\ frame.s.exc = "none"
  /\ Running(started(frame, _sample_sentence_length(frame.s.pos)))
  /\ UNCHANGED models

\* the sentence loop is over
Conclude ==
  /\ pc = "running" /\ frame.at = "sentence"
  /\ IF frame.method = "generate_word_1"
     THEN ~(Len(frame.s.sentences) < num_sentences /\ frame.s.attempts < max_attempts)
     ELSE ~(frame.i < num_sentences /\ frame.s.exc = "none")
  /\ Running(concluded(frame, anchor_words, join(<<" ">>, frame.s.sentences)))
  /\ UNCHANGED models

\* `for attempt in range(10)` for the anchor todo[1]: one attempt
AnchorAttempt ==
  /\ pc = "running" /\ frame.at = "anchors"
  /\ frame.todo # <<>> /\ frame.attempt < max_anchor_attempts
  /\ Running(IF has(word_unigrams, frame.todo[1])
             THEN attempted(frame,
                    candidateFor(frame.todo[1], _sample_sentence_length(frame.text.pos)))
             ELSE [frame EXCEPT !.attempt = frame.attempt + 1])
  /\ UNCHANGED models

\* the attempts for the anchor todo[1] are used up
NextAnchor ==
  /\ pc = "running" /\ frame.at = "anchors"
  /\ frame.todo # <<>> /\ frame.attempt >= max_anchor_attempts
  /\ Running([frame EXCEPT !.todo = Tail(frame.todo), !.attempt = 0])
  /\ UNCHANGED models

\* every missing anchor has been handled
Rejoin ==
  /\ pc = "running" /\ frame.at = "anchors"
  /\ frame.todo = <<>>
  /\ Running([frame EXCEPT !.at = "return", !.ret = asReturned(rejoined(frame.text))])
  /\ UNCHANGED models

\* generate returns or raises
Finish ==
  /\ pc = "running" /\ frame.at = "return"
  /\ pc' = "done"
  /\ result' = frame.ret.out
  /\ ndraws' = frame.ret.pos
  /\ tape' = advance(tape, frame.ret.pos)
  /\ raised' = frame.ret.exc
  /\ message' = messageOf(frame.ret.exc, level)
  /\ frame' = <<>>
  /\ UNCHANGED <<files, tables, models, fn, arg, level, length, num_sentences, anchor_words>>

\* the next step of the running call
Step ==
  \/ ExtendToken
  \/ LeaveLoop
  \/ Attempt
  \/ StartSentence
  \/ Conclude
  \/ AnchorAttempt
  \/ NextAnchor
  \/ Rejoin
  \/ Finish

NextSteps == Call \/ Step \/ Return

SpecSteps == InitSteps /\ [][NextSteps]_vars

\* a call followed loop by loop returns what the call as a whole returns
StepsAgreeWithCall ==
  [][pc = "running" /\ pc' = "done" =>
       LET r == generate(level, length, num_sentences, anchor_words, 0)
       IN  result' = r.out /\ ndraws' = r.pos /\ raised' = r.exc]_vars

(***************************************************************************)
(* Properties of the loops of generate, checked under SpecSteps.           *)
(***************************************************************************)
AtLeastZero(x) == IF x < 0 THEN 0 ELSE x

\* what is left of a running call: the phase (3 the generation loops, 2 the
\* anchor attempts, 1 the return statement), then the iterations left of the
\* outer loop, of the loop inside it and of the extend loop
Variant(p, f, n) ==
  IF p # "running" THEN <<0, 0, 0, 0>>
  ELSE IF f.at = "return" THEN <<1, 0, 0, 0>>
  ELSE IF f.at = "anchors"
  THEN <<2, Len(f.todo), AtLeastZero(max_anchor_attempts - f.attempt), 0>>
  ELSE IF f.method = "generate_word_1"
  THEN <<3, AtLeastZero(max_attempts - f.s.attempts), 0, 0>>
  ELSE IF f.at = "sentence" THEN <<3, AtLeastZero(n - f.i), 1, 0>>
  ELSE <<3, IF f.method \in CharMethods THEN 0 ELSE AtLeastZero(n - f.i), 0,
         AtLeastZero(f.bound - Len(f.w.result))>>

\* the lexicographic order on variants
Below(x, y) ==
  \E k \in 1..4 : x[k] < y[k] /\ \A j \in 1..(k - 1) : x[j] = y[j]

\* C11: every generate call terminates: each step of a running call (one
\* iteration of an extend loop, which appends a token or leaves the loop; one
\* of at most 100 sentence attempts of word-1; one of at most 10 attempts for
\* a missing anchor) takes the call to a state with a smaller variant, in
\* front of one of its loops or of its return statement; a variant of
\* natural numbers cannot decrease for ever
C11_CallsTerminate ==
  [][pc' = "running" =>
       /\ pc = "running" => Below(Variant(pc', frame', num_sentences'),
                                  Variant(pc, frame, num_sentences))
       /\ frame'.at \in {"extend", "sentence", "anchors", "return"}
       /\ frame'.s.attempts <= max_attempts
       /\ frame'.attempt <= max_anchor_attempts]_vars

\* a word-1 call has used up its 100 attempts
C11_Witness ==
  /\ pc = "running" /\ frame.at = "sentence"
  /\ frame.method = "generate_word_1"
  /\ frame.s.attempts = max_attempts /\ frame.s.sentences = <<>>

\* C12: generation leaves the session as it was built: no step of a call, at
\* any level, with or without anchor words, changes a frequency table, a
\* unigram distribution, a transition model (its contexts and distributions,
\* also when a context that is looked up is not in it) or the sentence stats
C12_SessionUnchanged == [][UNCHANGED <<tables, models>>]_vars

\* a char-2 call has looked up a context that is not in the bigram model, and
\* the model is still the one built from the table
C12_Witness ==
  /\ pc = "running" /\ frame.at = "extend"
  /\ frame.method = "generate_char_2"
  /\ Len(frame.w.result) >= 2
  /\ ~has(char_bigram_chains, [s |-> frame.w.result[Len(frame.w.result) - 1]])
  /\ char_bigram_chains = _build_markov_chains(char_bigrams)

\* a word of a well-formed text: not empty, without a period before its
\* last character
PlainWord(w) ==
  /\ w # <<>>
  /\ \A k \in 1..(Len(w) - 1) : w[k] # "."

IsUpper(c) == \E k \in 1..Len(UpperChars) : UpperChars[k] = c

\* the words between single spaces form sentences: a word that ends with a
\* period ends a sentence, the word after it starts with an upper-case
\* character, as does the first word, and the last word ends with a period
WellFormed(words) ==
  /\ \A k \in 1..Len(words) : PlainWord(words[k])
  /\ IsUpper(words[1][1])
  /\ last(last(words)) = "."
  /\ \A k \in 1..(Len(words) - 1) : last(words[k]) = "." => IsUpper(words[k + 1][1])

\* C15: a non-empty output of a word level, also after anchor integration
\* has replaced a sentence, is a sequence of sentences separated by one
\* space, each sentence its words joined by single spaces, starting with an
\* upper-case character and ending with exactly one period
C15_SentenceFormat ==
  pc = "done" /\ level \in WordLevels /\ raised = "none" /\ result # <<>> =>
    WellFormed(split(result, <<" ">>))

Keys(d) == {d[k].k : k \in 1..Len(d)}

\* the tokens that may follow the tokens so far: the continuations of the
\* last two tokens in the trigram model when they are a context of it (at
\* level 3), else the continuations of the last token in the bigram model
\* when it is a context of it, else the unigram tokens
Continuations(trigram, bigram, unigram, tokens) ==
  IF trigram # <<>> /\ has(trigram, contextOf(tokens))
  THEN Keys(get(trigram, contextOf(tokens), <<>>))
  ELSE IF has(bigram, [s |-> last(tokens)])
  THEN Keys(get(bigram, [s |-> last(tokens)], <<>>))
  ELSE Keys(unigram)

\* the same for the running method f.method
ContinuationsOf(method, tokens) ==
  IF method = "generate_char_3"
  THEN Continuations(char_trigram_chains, char_bigram_chains, char_unigram_probs, tokens)
  ELSE IF method = "generate_char_2"
  THEN Continuations(<<>>, char_bigram_chains, char_unigram_probs, tokens)
  ELSE IF method = "generate_word_3"
  THEN Continuations(word_trigram_chains, word_bigram_chains, word_unigram_probs, tokens)
  ELSE Continuations(<<>>, word_bigram_chains, word_unigram_probs, tokens)

\* an iteration of an extend loop runs on at least the seeds of its level
Extends ==
  /\ pc = "running" /\ frame.at = "extend"
  /\ Len(frame.w.result) < frame.bound
  /\ Len(frame.w.result) >= (IF frame.method \in TrigramMethods THEN 2 ELSE 1)

\* C16: the fallback order per token: a token appended after the seeds is a
\* continuation of the trigram context when the context is in the trigram
\* model (level 3), else a continuation of the previous token when that is a
\* context of the bigram model, else a unigram token; the loop is left
\* before the length is reached only when none of the three yields a token
C16_FallbackOrder ==
  [][Extends =>
       IF frame'.at = "extend"
       THEN /\ Len(frame'.w.result) = Len(frame.w.result) + 1
            /\ last(frame'.w.result)
                 \in ContinuationsOf(frame.method, frame.w.result)
       ELSE ContinuationsOf(frame.method, frame.w.result) = {}]_vars

\* a char-3 call has appended a token from the bigram model: the two tokens
\* before it are not a context of the trigram model
C16_Witness ==
  /\ pc = "running" /\ frame.at = "extend"
  /\ frame.method = "generate_char_3"
  /\ Len(frame.w.result) >= 3
  /\ LET before == SubSeq(frame.w.result, 1, Len(frame.w.result) - 1)
     IN  /\ ~has(char_trigram_chains, contextOf(before))
         /\ has(char_bigram_chains, [s |-> last(before)])
         /\ last(frame.w.result) \in
              Keys(get(char_bigram_chains, [s |-> last(before)], <<>>))

\* C17: at the word levels a sentence has at most as many words as the
\* target length sampled for it, for every target length of at least 1, also
\* at word-3 where a sentence starts from two unigram draws (here: the words
\* of the sentence under construction by word-2 or word-3 never exceed the
\* target; word-1 draws its words in a loop over range(target))
C17_SentenceWithinTarget ==
  /\ pc = "running" /\ frame.at = "extend"
  /\ frame.method \in {"generate_word_2", "generate_word_3"}
  /\ frame.bound >= 1
  => Len(frame.w.result) <= frame.bound

(***************************************************************************)
(* Properties of _sample_sentence_length and _generate_around_anchor,      *)
(* checked under SpecFn.                                                   *)
(***************************************************************************)
\* the length distribution of the session, <<>> when there is none
LengthDistribution == get(sentence_stats, "length_distribution", <<>>)

\* the lengths of the distribution whose count is at least 1
CountedLengths ==
  {int(LengthDistribution[i].k) :
     i \in {j \in 1..Len(LengthDistribution) : LengthDistribution[j].v >= 1}}

\* C14: _sample_sentence_length returns a positive integer: one of the
\* lengths whose count is at least 1 when the length distribution has such a
\* length, and a length in 5..20 when the sentence stats are absent, lack a
\* length distribution, or the distribution is empty
C14_SampleSentenceLength ==
  pc = "done" /\ fn = "_sample_sentence_length" =>
    /\ result \in Nat \ {0}
    /\ CountedLengths # {} => result \in CountedLengths
    /\ LengthDistribution = <<>> => result \in 5..20

\* a length was sampled from a distribution with a length of count 0 beside
\* lengths that have been counted, one of them of two digits
C14_Witness ==
  /\ pc = "done" /\ fn = "_sample_sentence_length"
  /\ \E i \in 1..Len(LengthDistribution) : LengthDistribution[i].v = 0
  /\ 12 \in CountedLengths
  /\ result \in CountedLengths

\* before_count of a finished _generate_around_anchor call: its first draw
\* (the random source has moved on by ndraws since)
BeforeCount == randint(2, 5, ndraws * (TapeLen - 1))

\* the word bigram model has a continuation for every word of the vocabulary
EveryWordContinues ==
  \A k \in 1..Len(word_unigrams) : has(word_bigram_chains, [s |-> word_unigrams[k].k])

\* C18: _generate_around_anchor walks the word model from the anchor: when
\* the word bigram model continues every word of the vocabulary and the
\* unigram distribution is not empty, the sentence has before_count words
\* before the anchor and max(0, num_words - before_count) words after it
C18_WordsAroundAnchor ==
  /\ pc = "done" /\ fn = "_generate_around_anchor"
  /\ EveryWordContinues /\ word_unigram_probs # <<>>
  => /\ Len(split(result, <<" ">>)) =
          BeforeCount + 1 + AtLeastZero(arg[2] - BeforeCount)
     /\ lower(split(result, <<" ">>)[BeforeCount + 1]) \in {arg[1], arg[1] \o <<".">>}

(***************************************************************************)
(* The command line (shannon_gen.py) and the analysis script (analyze.py)  *)
(* on a file system.  A command is parsed (pc = "main"), constructs its    *)
(* session from the files (pc = "session") and calls generate; fn is the   *)
(* command, arg the options as given and as parsed, frame the local        *)
(* variables of the command, result what it prints last.  The directories  *)
(* '.' and 'JSON_Files' exist and the text files are readable.             *)
(***************************************************************************)
\* two of the three authors the parser accepts
Authors == {"austen", "twain"}

\* the seven artifacts of an author, in the order of the tables of a session
Artifacts ==
  <<"char_unigrams", "char_bigrams", "char_trigrams",
    "word_unigrams", "word_bigrams", "word_trigrams", "sentence_stats">>

\* f'{output_dir}/{author_name}_<artifact>.json', Path(data_dir) / filename
filepath(dir, author, artifact) == [dir |-> dir, author |-> author, artifact |-> artifact]

\* what the analysis of the text of an author yields
Analysis(author) == IF author = "austen" THEN FullSession ELSE AnchorSession

\* analyze_author: the seven files written to output_dir
analyze_author(fs, author_name, output_dir) ==
  [p \in DOMAIN fs \cup {filepath(output_dir, author_name, Artifacts[k]) : k \in 1..7} |->
     IF p.dir = output_dir /\ p.author = author_name
     THEN Analysis(author_name)[CHOOSE k \in 1..7 : Artifacts[k] = p.artifact]
     ELSE fs[p]]

\* _load_json: the content of the file, {} when it is not found
_load_json(fs, data_dir, author, artifact) ==
  IF filepath(data_dir, author, artifact) \in DOMAIN fs
  THEN fs[filepath(data_dir, author, artifact)]
  ELSE <<>>

\* str.strip() of a str with spaces
RECURSIVE strip(_)
strip(s) ==
  IF s # <<>> /\ s[1] = " " THEN strip(Tail(s))
  ELSE IF s # <<>> /\ s[Len(s)] = " " THEN strip(SubSeq(s, 1, Len(s) - 1))
  ELSE s

\* [w.strip() for w in option.split(',')]
stripped(option) == [k \in 1..Len(split(option, <<",">>)) |-> strip(split(option, <<",">>)[k])]

\* the options of a command line; a number that is not given is <<>> and one
\* that is given is <<number>>, a level that is not given is "", anchors that
\* are not given are None
argv(command, author, lv, len, n, anchors) ==
  [command |-> command, author |-> author, level |-> lv,
   length |-> len, sentences |-> n, anchors |-> anchors]

\* the command lines explored (--author holds --authors for blend)
CommandLines ==
  {argv("analyze", <<a>>, "", <<>>, <<>>, None) : a \in Authors}
  \cup {argv("generate", <<a>>, lv, len, <<>>, None) :
          a \in Authors, lv \in {"char-0", "char-1", "char-2", "char-3"},
          len \in {<<>>} \cup {<<k>> : k \in 0..MaxLength}}
  \cup {argv("generate", <<a>>, lv, <<>>, n, anchors) :
          a \in Authors, lv \in {"word-1", "word-2", "word-3"},
          n \in {<<>>} \cup {<<k>> : k \in 0..MaxSentences},
          anchors \in {None, <<"b">>, <<"b", ",", " ", "z">>}}
  \cup {argv("compare", <<a>>, "", <<>>, n, None) :
          a \in Authors, n \in {<<>>} \cup {<<k>> : k \in 0..MaxSentences}}
  \cup {argv("blend", authors, lv, <<>>, n, None) :
          authors \in {<<"austen", "twain">>, <<"twain", "austen">>, <<"austen">>,
                       <<"austen", "shaw">>},
          lv \in {"char-1", "word-2"}, n \in {<<>>} \cup {<<k>> : k \in 0..MaxSentences}}

\* parser.parse_args(): the defaults of the options that are not given
parse_args(given) ==
  [given EXCEPT
     !.length = IF given.length = <<>> THEN 100 ELSE given.length[1],
     !.sentences = IF given.sentences # <<>> THEN given.sentences[1]
                   ELSE IF given.command = "compare" THEN 2 ELSE 3]

\* `value if value else default`: 0 is false
if_else(value, default) == IF value = 0 THEN default ELSE value

\* the levels cmd_compare runs through
levels ==
  <<"char-0", "char-1", "char-2", "char-3", "word-1", "word-2", "word-3">>

\* level.startswith('char-')
is_char_level(lv) == lv \in {"char-0", "char-1", "char-2", "char-3"}

\* the gen.generate(...) call of a command for a level
generate_call(args, lv) ==
  IF args.command = "generate"
  THEN IF is_char_level(lv)
       THEN request(lv, if_else(args.length, 100), default_num_sentences, NoneList)
       ELSE request(lv, default_length, if_else(args.sentences, 3),
                    IF Truthy(args.anchors) THEN stripped(args.anchors) ELSE NoneList)
  ELSE IF args.command = "compare"
  THEN IF is_char_level(lv)
       THEN request(lv, 100, default_num_sentences, NoneList)
       ELSE request(lv, default_length, if_else(args.sentences, 2), NoneList)
  ELSE IF is_char_level(lv)
       THEN request(lv, 50, default_num_sentences, NoneList)
       ELSE request(lv, default_length, if_else(args.sentences, 3), NoneList)

\* text if len(text) <= limit else text[:limit] + "..."
display(text, limit) ==
  IF Len(text) <= limit THEN text ELSE SubSeq(text, 1, limit) \o <<".", ".", ".">>

\* the sentences of the authors in turn: sentence i of each author that has one
RECURSIVE round_robin(_, _, _)
round_robin(sentences_by_author, i, j) ==
  IF \A k \in 1..Len(sentences_by_author) : i > Len(sentences_by_author[k]) THEN <<>>
  ELSE IF j > Len(sentences_by_author) THEN round_robin(sentences_by_author, i + 1, 1)
  ELSE (IF i <= Len(sentences_by_author[j]) THEN <<sentences_by_author[j][i]>> ELSE <<>>)
       \o round_robin(sentences_by_author, i, j + 1)

\* the blended output of cmd_blend
blended(all_texts, lv) ==
  IF is_char_level(lv) THEN join(<<" ">>, all_texts)
  ELSE join(SEP, round_robin([k \in 1..Len(all_texts) |-> split(all_texts[k], SEP)], 1, 1))

\* no session, no command, an empty file system
InitCli ==
  /\ Constructed({<<<<>>, <<>>, <<>>, <<>>, <<>>, <<>>, <<>>>>})
  /\ tape \in Tapes
  /\ fn = "" /\ arg = <<>>

\* python analyze.py: main analyzes every author into '.'
AnalyzeScript ==
  /\ pc = "idle"
  /\ files' = analyze_author(analyze_author(files, "austen", "."), "twain", ".")
  /\ fn' = "analyze.py" /\ arg' = <<>>
  /\ UNCHANGED <<tables, models, pc, level, length, num_sentences, anchor_words,
                 tape, ndraws, result, raised, message, frame>>

\* python shannon_gen.py <command> <options>: main parses the command line
Main ==
  /\ pc = "idle"
  /\ \E given \in CommandLines :
       /\ fn' = given.command
       /\ arg' = [given |-> given, args |-> parse_args(given)]
  /\ pc' = "main"
  /\ frame' = [i |-> 1, all_texts |-> <<>>]
  /\ level' = "" /\ length' = 0 /\ num_sentences' = 0 /\ anchor_words' = NoneList
  /\ ndraws' = 0 /\ result' = <<>> /\ raised' = "none" /\ message' = <<>>
  /\ UNCHANGED <<files, tables, models, tape>>

\* cmd_analyze: analyze_author(author, filename, output_dir='JSON_Files')
CmdAnalyze ==
  /\ pc = "main" /\ fn = "analyze"
  /\ files' = analyze_author(files, arg.args.author[1], "JSON_Files")
  /\ pc' = "idle"
  /\ UNCHANGED <<tables, models, fn, arg, level, length, num_sentences,
                 anchor_words, tape, ndraws, result, raised, message, frame>>

\* cmd_blend: an author that is not valid, or fewer than two authors
BlendRejected ==
  /\ pc = "main" /\ fn = "blend" /\ frame.i = 1
  /\ \/ \E k \in 1..Len(arg.args.author) :
          arg.args.author[k] \notin {"austen", "twain", "doyle"}
     \/ Len(arg.args.author) < 2
  /\ pc' = "idle"
  /\ raised' = "SystemExit"
  /\ UNCHANGED <<files, tables, models, fn, arg, level, length, num_sentences,
                 anchor_words, tape, ndraws, result, message, frame>>

\* gen = TextGenerator(author, data_dir='.')
NewSession ==
  /\ pc = "main" /\ fn \in {"generate", "compare", "blend"}
  /\ fn = "blend" =>
       /\ Len(arg.args.author) >= 2
       /\ \A k \in 1..Len(arg.args.author) :
            arg.args.author[k] \in {"austen", "twain", "doyle"}
  /\ LET author == IF fn = "blend" THEN arg.args.author[frame.i] ELSE arg.args.author[1]
     IN  /\ char_unigrams' = _load_json(files, ".", author, "char_unigrams")
         /\ char_bigrams' = _load_json(files, ".", author, "char_bigrams")
         /\ char_trigrams' = _load_json(files, ".", author, "char_trigrams")
         /\ word_unigrams' = _load_json(files, ".", author, "word_unigrams")
         /\ word_bigrams' = _load_json(files, ".", author, "word_bigrams")
         /\ word_trigrams' = _load_json(files, ".", author, "word_trigrams")
         /\ sentence_stats' = _load_json(files, ".", author, "sentence_stats")
  /\ char_unigram_probs' = _frequencies_to_probabilities(char_unigrams')
  /\ char_bigram_chains' = _build_markov_chains(char_bigrams')
  /\ char_trigram_chains' = _build_markov_chains(char_trigrams')
  /\ word_unigram_probs' = _frequencies_to_probabilities(word_unigrams')
  /\ word_bigram_chains' = _build_markov_chains(word_bigrams')
  /\ word_trigram_chains' = _build_markov_chains(word_trigrams')
  /\ pc' = "session"
  /\ UNCHANGED <<files, fn, arg, level, length, num_sentences, anchor_words,
                 tape, ndraws, result, raised, message, frame>>

\* gen.generate(...) of the session for req, and what the command does with
\* the text: next is the position of the command after it
Generated(req, next, i) ==
  LET r == generate(req.level, req.length, req.num_sentences, req.anchor_words, 0)
  IN  /\ level' = req.level
      /\ length' = req.length
      /\ num_sentences' = req.num_sentences
      /\ anchor_words' = req.anchor_words
      /\ ndraws' = r.pos
      /\ tape' = advance(tape, r.pos)
      /\ raised' = r.exc
      /\ message' = messageOf(r.exc, req.level)
      /\ frame' = [i |-> i, all_texts |-> Append(frame.all_texts, r.out)]
      /\ result' = IF fn = "generate" THEN r.out
                   ELSE IF fn = "compare" THEN display(r.out, 200)
                   ELSE IF next = "main" THEN display(r.out, 150)
                   ELSE blended(Append(frame.all_texts, r.out), req.level)
      /\ pc' = next
      /\ UNCHANGED <<files, tables, models, fn, arg>>

\* cmd_generate: one text at the level asked for
CmdGenerate ==
  /\ pc = "session" /\ fn = "generate"
  /\ Generated(generate_call(arg.args, arg.args.level), "idle", 1)

\* cmd_compare: a text at each of the seven levels
CmdCompare ==
  /\ pc = "session" /\ fn = "compare"
  /\ Generated(generate_call(arg.args, levels[frame.i]),
               IF frame.i < Len(levels) THEN "session" ELSE "idle", frame.i + 1)

\* cmd_blend: a text of each author, blended after the last
CmdBlend ==
  /\ pc = "session" /\ fn = "blend"
  /\ Generated(generate_call(arg.args, arg.args.level),
               IF frame.i < Len(arg.args.author) THEN "main" ELSE "idle", frame.i + 1)

NextCli ==
  \/ AnalyzeScript
  \/ Main
  \/ CmdAnalyze
  \/ BlendRejected
  \/ NewSession
  \/ CmdGenerate
  \/ CmdCompare
  \/ CmdBlend

SpecCli == InitCli /\ [][NextCli]_vars

(***************************************************************************)
(* Properties of the command line, checked under SpecCli.                  *)
(***************************************************************************)
\* the author of the session a command has constructed
session_author == IF fn = "blend" THEN arg.args.author[frame.i] ELSE arg.args.author[1]

\* the command `analyze` has written the seven artifacts of author
Analyzed(author) ==
  \A k \in 1..7 : filepath("JSON_Files", author, Artifacts[k]) \in DOMAIN files

\* C19: once the command `analyze` has completed for an author, the session
\* a following `generate`, `compare` or `blend` constructs for that author
\* holds exactly the seven artifacts analyze wrote (same directory, same file
\* names): none of its tables is the empty table of a missing file.
C19_HandOff ==
  (pc = "session" /\ Analyzed(session_author)) =>
    tables = [k \in 1..7 |->
                files[filepath("JSON_Files", session_author, Artifacts[k])]]

\* a command has called gen.generate
Generating == fn \in {"generate", "compare", "blend"} /\ level # ""

\* C20: the commands pass --length and --sentences to generate unchanged,
\* 0 included; the defaults (100 characters; 3 sentences, 2 for compare)
\* apply only when the option is not given.
C20_OptionsPassedUnchanged ==
  Generating =>
    /\ (fn = "generate" /\ is_char_level(level)) =>
         length = IF arg.given.length = <<>> THEN 100 ELSE arg.given.length[1]
    /\ ~is_char_level(level) =>
         num_sentences = IF arg.given.sentences # <<>> THEN arg.given.sentences[1]
                         ELSE IF fn = "compare" THEN 2 ELSE 3

(***************************************************************************)
(* Which entries of its table _build_markov_chains keeps, checked under    *)
(* SpecFn.                                                                 *)
(***************************************************************************)
\* the tokens of a context of the chains
TokensOf(context) ==
  IF "s" \in DOMAIN context THEN <<context.s>> ELSE <<context.a, context.b>>

\* the chains hold, with a probability above 0, a context and a continuation
\* whose tokens joined by sep are key
Kept(chains, key, sep) ==
  \E i \in 1..Len(chains) : \E j \in 1..Len(chains[i].v) :
    /\ join(sep, Append(TokensOf(chains[i].k), chains[i].v[j].k)) = key
    /\ chains[i].v[j].v.num > 0

\* C21 as stated: _build_markov_chains drops no entry: for every key of the
\* table, whatever its number of '||'-separated parts (none as in 'aa', four
\* or more), the chains hold a context and a continuation that together spell
\* the key (joined by '||', or written one after the other), with a
\* probability above 0; so a non-empty table never yields empty chains.
C21_NoEntryDropped ==
  (pc = "done" /\ fn = "_build_markov_chains") =>
    /\ \A e \in 1..Len(arg[1]) :
         Kept(result, arg[1][e].k, DELIM) \/ Kept(result, arg[1][e].k, <<>>)
    /\ arg[1] # <<>> => result # <<>>

\* C21 amended: _build_markov_chains keeps exactly the entries whose key
\* splits on '||' into two or three parts: for each of them the chains hold a
\* context and a continuation that joined by '||' are the key, with a
\* probability above 0, and every context and continuation of the chains
\* comes from such an entry.  Entries whose key has any other number of parts
\* are skipped, so the chains are empty exactly when the table has no key of
\* two or three parts.
C21_TwoOrThreePartsKept ==
  (pc = "done" /\ fn = "_build_markov_chains") =>
    /\ raised = "none"
    /\ \A e \in 1..Len(arg[1]) :
         Len(split(arg[1][e].k, DELIM)) \in {2, 3} => Kept(result, arg[1][e].k, DELIM)
    /\ \A i \in 1..Len(result) : \A j \in 1..Len(result[i].v) :
         LET key == join(DELIM, Append(TokensOf(result[i].k), result[i].v[j].k))
         IN  has(arg[1], key) /\ Len(split(key, DELIM)) \in {2, 3}
    /\ result = <<>> <=>
         \A e \in 1..Len(arg[1]) : Len(split(arg[1][e].k, DELIM)) \notin {2, 3}

\* the table {aa: 1, a||a||ab: 2} has given chains with the single context
\* (a, a) and the continuation ab: the entry aa is dropped
C21_Witness ==
  /\ pc = "done" /\ fn = "_build_markov_chains"
  /\ arg[1] = <<item(<<"a", "a">>, 1), item(str3(<<"a">>, <<"a">>, <<"a", "b">>), 2)>>
  /\ result = <<item([a |-> <<"a">>, b |-> <<"a">>],
                     <<item(<<"a", "b">>, [num |-> 2, den |-> 2])>>)>>

====
